---- MODULE Spec2Model ----
(***************************************************************************)
(* A model of jeertmans/parts: the parallel walk of one part               *)
(* (src/src/walk.rs), the resolution of the TOML configuration             *)
(* (src/src/config.rs, src/src/main.rs) and the splitting of a config      *)
(* source string into a path and a list of keys.                           *)
(*                                                                         *)
(* Strings are sequences of one-character strings, so that splitting,      *)
(* prefix stripping and pattern matching are computed, not assumed.        *)
(***************************************************************************)
EXTENDS Integers, Sequences, FiniteSets, TLC

VARIABLES
    \* ---- Walker::walk (src/src/walk.rs) ----
    config,      \* the Config the Walker is built from
    leafKind,    \* kind of the leaf entries of the tree ("file" or "dir")
    errEntry,    \* the entry the traversal reports an Err for (0: none)
    sinkOk,      \* whether BufferWriter::print succeeds
    pending,     \* entries the traversal service has still to hand to a worker
    wstate,      \* state of each traversal worker
    channel,     \* the unbounded crossbeam channel (DirEntry paths in flight)
    txMain,      \* TRUE while walk still owns its Sender
    cstate,      \* state of the stdout thread (the single consumer)
    buffer,      \* the termcolor Buffer the consumer writes paths into
    sinkOut,     \* what BufferWriter::print has put on the sink
    mainpc,      \* position of the thread that called walk
    \* ---- config resolution (src/src/config.rs, src/src/main.rs) ----
    fs,          \* the files of the working directory, by path
    cliConfig,   \* the --config option (None or a ConfigSource string)
    cpc,         \* position of try_main
    cand,        \* index of the discovery candidate tried next
    warned,      \* candidates skipped with a warning, in order
    resolved,    \* Result<ConfigFile> of the resolution
    got,         \* results of ConfigFile::get on the resolved document
    listed,      \* what write_list printed as file and keys
    \* ---- split_path_and_keys ----
    input,       \* the string given to split_path_and_keys
    output       \* its result (None before the call)

walkVars == <<config, leafKind, errEntry, sinkOk, pending, wstate, channel,
              txMain, cstate, buffer, sinkOut, mainpc>>
confVars == <<fs, cliConfig, cpc, cand, warned, resolved, got, listed>>
splitVars == <<input, output>>
vars == <<walkVars, confVars, splitVars>>

None == [none |-> TRUE]

(***************************************************************************)
(* Bounds of the model.                                                    *)
(***************************************************************************)
NumEntries == 3
NumWorkers == 2
MaxLen == 4

(***************************************************************************)
(* Strings.                                                                *)
(***************************************************************************)
SPLIT_PATH == ":"
SPLIT_KEYS == "."

\* The first index of character c in s, 0 if there is none.
RECURSIVE FindFrom(_, _, _)
FindFrom(s, c, i) ==
    IF i > Len(s) THEN 0
    ELSE IF s[i] = c THEN i
    ELSE FindFrom(s, c, i + 1)

Find(s, c) == FindFrom(s, c, 1)

\* The last index of character c in s, 0 if there is none.
RECURSIVE FindLastFrom(_, _, _)
FindLastFrom(s, c, i) ==
    IF i = 0 THEN 0
    ELSE IF s[i] = c THEN i
    ELSE FindLastFrom(s, c, i - 1)

\* SplitOnce splitting at the last delimiter (str::rsplit_once).
SplitOnce_Last(s, c) ==
    LET i == FindLastFrom(s, c, Len(s))
    IN  IF i = 0 THEN None
        ELSE [before |-> SubSeq(s, 1, i - 1), after |-> SubSeq(s, i + 1, Len(s))]

\* str::split_once: None when the delimiter is absent, else the text before
\* the first delimiter and the text after it.
SplitOnce(s, c) ==
    LET i == Find(s, c)
    IN  IF i = 0 THEN None
        ELSE [before |-> SubSeq(s, 1, i - 1), after |-> SubSeq(s, i + 1, Len(s))]

\* str::split: the pieces between the delimiters, empty pieces included; a
\* string with n delimiters gives n + 1 pieces.
RECURSIVE StrSplit(_, _)
StrSplit(s, c) ==
    LET i == Find(s, c)
    IN  IF i = 0 THEN <<s>>
        ELSE <<SubSeq(s, 1, i - 1)>> \o StrSplit(SubSeq(s, i + 1, Len(s)), c)

split_path_and_keys(s) ==
    LET r == SplitOnce(s, SPLIT_PATH)
    IN  IF r = None THEN [path |-> s, keys |-> <<>>]
        ELSE [path |-> r.before, keys |-> StrSplit(r.after, SPLIT_KEYS)]

\* s starts with the string p.
StartsWith(s, p) == Len(s) >= Len(p) /\ SubSeq(s, 1, Len(p)) = p

\* p occurs in s as a contiguous substring.
IsSubstring(p, s) ==
    \E i \in 1..(Len(s) + 1) :
        i + Len(p) - 1 <= Len(s) /\ SubSeq(s, i, i + Len(p) - 1) = p

(***************************************************************************)
(* Pattern sets (regex::bytes::RegexSet).  A regex is modelled by a        *)
(* literal that is searched anywhere in the haystack, or matched against   *)
(* the whole haystack when anchored; the regex of a glob is anchored.      *)
(***************************************************************************)
Regex(lit) == [anchored |-> FALSE, lit |-> lit]
Glob(lit) == [glob |-> lit]

\* Glob::regex: the regex source a glob compiles to, anchored at both ends.
GlobRegex(g) == [anchored |-> TRUE, lit |-> g.glob]

RegexMatches(r, s) == IF r.anchored THEN s = r.lit ELSE IsSubstring(r.lit, s)

\* RegexSet::empty
default_regexset == <<>>

\* merge_globs_and_regexes with "no rule" read as "match everything".
merge_globs_and_regexes_CatchAll(globs, regexes) ==
    IF Len(globs) = 0 /\ Len(regexes) = 0
    THEN <<[anchored |-> FALSE, lit |-> <<>>]>>
    ELSE regexes \o [i \in 1..Len(globs) |-> GlobRegex(globs[i])]

\* The patterns of the regex set, then the regex of each glob, as one set.
merge_globs_and_regexes(globs, regexes) ==
    regexes \o [i \in 1..Len(globs) |-> GlobRegex(globs[i])]

\* RegexSet::is_match: some pattern of the set matches.
is_match(set, s) == \E i \in 1..Len(set) : RegexMatches(set[i], s)

(***************************************************************************)
(* The Walker and the directory tree it walks.                             *)
(***************************************************************************)
\* impl From<Config> for Walker
WalkerFrom(c) ==
    [directory |-> c.directory,
     ignore_hidden |-> c.ignore_hidden,
     use_gitignore |-> c.use_gitignore,
     include |-> merge_globs_and_regexes(c.globs, c.regexes),
     exclude |-> merge_globs_and_regexes(c.exclude_globs, c.exclude_regexes)]

Walker == WalkerFrom(config)

\* The entries the traversal service yields: entry 1 is the root, the
\* children of entry e are 2e and 2e+1.
Entries == 1..NumEntries
Workers == 1..NumWorkers
Parent(e) == e \div 2
Children(e) == {c \in Entries : c > 1 /\ Parent(c) = e}
Leaves == {e \in Entries : Children(e) = {}}
Kind(e) == IF e \in Leaves THEN leafKind[e] ELSE "dir"
Name(e) == <<ToString(e)>>

\* Path::join
JoinPath(p, n) ==
    IF Len(p) > 0 /\ p[Len(p)] = "/" THEN p \o n ELSE p \o <<"/">> \o n

\* DirEntry::path of entry e: the walk's directory joined with the names
\* down to e.
RECURSIVE EntryPath(_)
EntryPath(e) ==
    IF e = 1 THEN Walker.directory ELSE JoinPath(EntryPath(Parent(e)), Name(e))

\* The path the consumer tests and writes: de.path() without a leading "./".
StripDotSlash(p) ==
    IF StartsWith(p, <<".", "/">>) THEN SubSeq(p, 3, Len(p)) ELSE p

\* Path::is_file, for the paths of the tree.
IsFile(p) ==
    \E e \in Entries : StripDotSlash(EntryPath(e)) = StripDotSlash(p) /\ Kind(e) = "file"

\* FilterMap without the test of the exclude set.
FilterMap_NoExclude(de) ==
    LET path == StripDotSlash(de.path)
    IN  IF IsFile(path) /\ is_match(Walker.include, path)
        THEN [some |-> path]
        ELSE None

\* The filter_map closure of the stdout thread: the path to write for a
\* DirEntry, or None.
FilterMap(de) ==
    LET path == StripDotSlash(de.path)
    IN  IF IsFile(path) /\ is_match(Walker.include, path)
                        /\ ~is_match(Walker.exclude, path)
        THEN [some |-> path]
        ELSE None

(***************************************************************************)
(* Walker::walk.  The initial state is the one in which the stdout thread  *)
(* has been spawned and walker.run starts its workers.                     *)
(***************************************************************************)
Str_dotslash == <<".", "/">>
Str_d == <<"d">>

\* Config, with the serde defaults for the fields left out.
MkConfig(directory, globs, regexes, exclude_globs, exclude_regexes) ==
    [directory |-> directory, ignore_hidden |-> TRUE, use_gitignore |-> TRUE,
     regexes |-> regexes, globs |-> globs,
     exclude_regexes |-> exclude_regexes, exclude_globs |-> exclude_globs]

\* The parts walked: literal names of entries as globs and regexes, and the
\* empty regex, which matches every path.
WalkConfigs ==
    {MkConfig(d, g, r, xg, xr) :
        d \in {Str_dotslash, Str_d},
        g \in {<<>>, <<Glob(Name(2))>>},
        r \in {default_regexset, <<Regex(<<>>)>>, <<Regex(Name(NumEntries))>>},
        xg \in {<<>>, <<Glob(Name(2))>>},
        xr \in {default_regexset, <<Regex(Name(NumEntries))>>}}

ConfIdle ==
    /\ fs = <<>> /\ cliConfig = None /\ cpc = "idle" /\ cand = 0
    /\ warned = <<>> /\ resolved = None /\ got = {} /\ listed = None

SplitIdle == input = <<>> /\ output = None

WalkIdle ==
    /\ config = None /\ leafKind = <<>> /\ errEntry = 0 /\ sinkOk = TRUE
    /\ pending = {} /\ wstate = <<>> /\ channel = <<>> /\ txMain = FALSE
    /\ cstate = "idle" /\ buffer = <<>> /\ sinkOut = <<>> /\ mainpc = "idle"

InitWalk ==
    /\ config \in WalkConfigs
    /\ leafKind \in [Leaves -> {"file", "dir"}]
    /\ errEntry \in 0..NumEntries
    /\ sinkOk \in BOOLEAN
    /\ pending = {1}
    /\ wstate = [w \in Workers |-> "running"]
    /\ channel = <<>>
    /\ txMain = TRUE
    /\ cstate = "running"
    /\ buffer = <<>>
    /\ sinkOut = <<>>
    /\ mainpc = "run"
    /\ ConfIdle /\ SplitIdle

\* The closure a worker runs on one traversal result: result.unwrap() panics
\* on an Err, otherwise the entry is sent on the worker's clone of tx.  A
\* directory that was read hands its children to the traversal.
WorkerVisit(w, e) ==
    /\ wstate[w] = "running"
    /\ e \in pending
    /\ IF e = errEntry
       THEN /\ wstate' = [wstate EXCEPT ![w] = "panicked"]
            /\ pending' = pending \ {e}
            /\ UNCHANGED channel
       ELSE /\ channel' = Append(channel, [path |-> EntryPath(e)])
            /\ pending' = (pending \ {e}) \cup Children(e)
            /\ UNCHANGED wstate
    /\ UNCHANGED <<config, leafKind, errEntry, sinkOk, txMain, cstate, buffer,
                   sinkOut, mainpc, confVars, splitVars>>

\* A worker ends when the traversal has no entry left; its clone of tx is
\* dropped with it.
WorkerQuit(w) ==
    /\ wstate[w] = "running"
    /\ pending = {}
    /\ wstate' = [wstate EXCEPT ![w] = "done"]
    /\ UNCHANGED <<config, leafKind, errEntry, sinkOk, pending, channel, txMain,
                   cstate, buffer, sinkOut, mainpc, confVars, splitVars>>

\* walker.run returns once every worker has ended; the panic of a worker is
\* carried to the caller, whose tx is dropped by the unwinding.
RunReturns ==
    /\ mainpc = "run"
    /\ \A w \in Workers : wstate[w] # "running"
    /\ IF \E w \in Workers : wstate[w] = "panicked"
       THEN mainpc' = "panicked" /\ txMain' = FALSE
       ELSE mainpc' = "drop" /\ UNCHANGED txMain
    /\ UNCHANGED <<config, leafKind, errEntry, sinkOk, pending, wstate, channel,
                   cstate, buffer, sinkOut, confVars, splitVars>>

\* walk without its drop(tx): the Sender of walk stays alive.
DropTx_Forgotten ==
    /\ mainpc = "drop"
    /\ mainpc' = "join"
    /\ UNCHANGED <<config, leafKind, errEntry, sinkOk, pending, wstate, channel,
                   txMain, cstate, buffer, sinkOut, confVars, splitVars>>

\* drop(tx)
DropTx ==
    /\ mainpc = "drop"
    /\ txMain' = FALSE
    /\ mainpc' = "join"
    /\ UNCHANGED <<config, leafKind, errEntry, sinkOk, pending, wstate, channel,
                   cstate, buffer, sinkOut, confVars, splitVars>>

\* One turn of the consumer's loop: receive the oldest entry, filter it and
\* write the path kept.
ConsumerRecv ==
    /\ cstate = "running"
    /\ channel # <<>>
    /\ LET r == FilterMap(Head(channel))
       IN  buffer' = IF r = None THEN buffer ELSE Append(buffer, r.some)
    /\ channel' = Tail(channel)
    /\ UNCHANGED <<config, leafKind, errEntry, sinkOk, pending, wstate, txMain,
                   cstate, sinkOut, mainpc, confVars, splitVars>>

\* rx.iter() ends when the channel is empty and every Sender is dropped.
ConsumerFinish ==
    /\ cstate = "running"
    /\ channel = <<>>
    /\ ~txMain
    /\ \A w \in Workers : wstate[w] # "running"
    /\ cstate' = "finished"
    /\ UNCHANGED <<config, leafKind, errEntry, sinkOk, pending, wstate, channel,
                   txMain, buffer, sinkOut, mainpc, confVars, splitVars>>

\* buffer_writer.print(&stdout_thread.join().unwrap()).unwrap()
JoinAndPrint ==
    /\ mainpc = "join"
    /\ cstate = "finished"
    /\ IF sinkOk
       THEN sinkOut' = buffer /\ mainpc' = "returned"
       ELSE mainpc' = "panicked" /\ UNCHANGED sinkOut
    /\ UNCHANGED <<config, leafKind, errEntry, sinkOk, pending, wstate, channel,
                   txMain, cstate, buffer, confVars, splitVars>>

WorkerStep == \E w \in Workers : (\E e \in Entries : WorkerVisit(w, e)) \/ WorkerQuit(w)
ConsumerStep == ConsumerRecv \/ ConsumerFinish
MainStep == RunReturns \/ DropTx \/ JoinAndPrint

NextWalk ==
    \/ \E w \in Workers, e \in Entries : WorkerVisit(w, e)
    \/ \E w \in Workers : WorkerQuit(w)
    \/ RunReturns
    \/ DropTx
    \/ ConsumerRecv
    \/ ConsumerFinish
    \/ JoinAndPrint

SpecWalk == InitWalk /\ [][NextWalk]_vars

\* The threads of a walk are operating-system threads: each one that can
\* take a step eventually does.
FairSpecWalk ==
    /\ InitWalk /\ [][NextWalk]_vars
    /\ WF_vars(WorkerStep) /\ WF_vars(ConsumerStep) /\ WF_vars(MainStep)

(***************************************************************************)
(* Properties of Walker::walk.                                             *)
(***************************************************************************)
Range(s) == {s[i] : i \in DOMAIN s}

\* Entry e has been handed to a worker.
RECURSIVE Visited(_)
Visited(e) ==
    /\ e \notin pending
    /\ \/ e = 1
       \/ Visited(Parent(e)) /\ Parent(e) # errEntry

\* Entry e has been sent on the channel.
Sent(e) == Visited(e) /\ e # errEntry

\* Path p matches one of the part's include rules / exclude rules.
InInclude(p) ==
    \/ \E i \in DOMAIN config.regexes : RegexMatches(config.regexes[i], p)
    \/ \E i \in DOMAIN config.globs : RegexMatches(GlobRegex(config.globs[i]), p)

InExclude(p) ==
    \/ \E i \in DOMAIN config.exclude_regexes :
            RegexMatches(config.exclude_regexes[i], p)
    \/ \E i \in DOMAIN config.exclude_globs :
            RegexMatches(GlobRegex(config.exclude_globs[i]), p)

WrittenPath(e) == StripDotSlash(EntryPath(e))

Selected(e) ==
    Kind(e) = "file" /\ InInclude(WrittenPath(e)) /\ ~InExclude(WrittenPath(e))

\* C1: in every state of a walk, each path in the consumer's buffer and on
\* the sink is the path of an entry that was sent by a worker, is a regular
\* file, matches an include rule and matches no exclude rule; a path that
\* matches both sets is never written.
C1_OnlyIncludedNotExcludedFilesWritten ==
    \A p \in Range(buffer) \cup Range(sinkOut) :
        \E e \in Entries : Sent(e) /\ WrittenPath(e) = p /\ Selected(e)

\* A walk has returned in which a file matching both the include and the
\* exclude set was drained and not written, while another file was written.
C1_Witness ==
    /\ mainpc = "returned"
    /\ \E e \in Entries :
          /\ Sent(e) /\ Kind(e) = "file"
          /\ InInclude(WrittenPath(e)) /\ InExclude(WrittenPath(e))
          /\ WrittenPath(e) \notin Range(sinkOut)
    /\ sinkOut # <<>>

\* The paths a walk of the whole tree has to write.
Expected == {WrittenPath(e) : e \in {x \in Entries : Selected(x)}}

WalkEnded == mainpc \in {"returned", "panicked"}

\* C2: when the traversal reports no error, the walk ends; and whenever walk
\* has returned, the traversal is complete, the workers have ended, the
\* channel is drained, the consumer has finished, and the sink holds each
\* selected file exactly once, the set being the one the tree and the part
\* determine.
C2_WalkRunsToCompletion ==
    /\ (errEntry = 0) => <>WalkEnded
    /\ [](mainpc = "returned" =>
            /\ pending = {}
            /\ \A e \in Entries : Sent(e)
            /\ \A w \in Workers : wstate[w] = "done"
            /\ channel = <<>>
            /\ cstate = "finished"
            /\ Range(sinkOut) = Expected
            /\ Len(sinkOut) = Cardinality(Expected))

\* A walk has returned having written two files.
C2_Witness == mainpc = "returned" /\ Len(sinkOut) >= 2

\* C3: an error reported for one entry does not abort the walk: no worker
\* and not the walk itself panics because of it.
C3_EntryErrorDoesNotAbortWalk ==
    errEntry # 0 =>
        /\ \A w \in Workers : wstate[w] # "panicked"
        /\ mainpc # "panicked"

\* C9: a part with no include glob and no include regex writes no path,
\* whatever the tree and the exclude rules.
C9_EmptyIncludeWritesNothing ==
    (Len(config.globs) = 0 /\ Len(config.regexes) = 0) =>
        (buffer = <<>> /\ sinkOut = <<>>)

\* A walk of a part without include rules has returned after the consumer
\* drained a regular file that no exclude rule matches.
C9_Witness ==
    /\ Len(config.globs) = 0 /\ Len(config.regexes) = 0
    /\ mainpc = "returned"
    /\ \E e \in Entries : Sent(e) /\ Kind(e) = "file" /\ ~InExclude(WrittenPath(e))

(***************************************************************************)
(* Config resolution: errors, TOML values and the files of the working     *)
(* directory.                                                              *)
(***************************************************************************)
Str_parts_toml == <<"p", "a", "r", "t", "s", ".", "t", "o", "m", "l">>
Str_dot_parts_toml == <<".", "p", "a", "r", "t", "s", ".", "t", "o", "m", "l">>
Str_Cargo_toml == <<"C", "a", "r", "g", "o", ".", "t", "o", "m", "l">>
Str_pyproject_toml == <<"p", "y", "p", "r", "o", "j", "e", "c", "t", ".", "t", "o", "m", "l">>
Str_Cargo_candidate ==
    Str_Cargo_toml \o <<":", "m", "e", "t", "a", "d", "a", "t", "a", ".", "p", "a", "r", "t", "s">>
Str_pyproject_candidate ==
    Str_pyproject_toml \o <<":", "t", "o", "o", "l", ".", "p", "a", "r", "t", "s">>
Str_metadata == <<"m", "e", "t", "a", "d", "a", "t", "a">>
Str_tool == <<"t", "o", "o", "l">>
Str_parts == <<"p", "a", "r", "t", "s">>
Str_default == <<"d", "e", "f", "a", "u", "l", "t">>
Str_directory == <<"d", "i", "r", "e", "c", "t", "o", "r", "y">>
Str_ignore_hidden == <<"i", "g", "n", "o", "r", "e", "_", "h", "i", "d", "d", "e", "n">>
Str_use_gitignore == <<"u", "s", "e", "_", "g", "i", "t", "i", "g", "n", "o", "r", "e">>
Str_regexes == <<"r", "e", "g", "e", "x", "e", "s">>
Str_globs == <<"g", "l", "o", "b", "s">>
Str_exclude_regexes == <<"e", "x", "c", "l", "u", "d", "e", "_", "r", "e", "g", "e", "x", "e", "s">>
Str_exclude_globs == <<"e", "x", "c", "l", "u", "d", "e", "_", "g", "l", "o", "b", "s">>
Str_bogus == <<"b", "o", "g", "u", "s">>
Str_a == <<"a">>
Str_b == <<"b">>
Str_missing == <<"m", "i", "s", "s", "i", "n", "g">>

\* POSSIBLE_CONFIG_PATHS with its second and third candidates exchanged.
POSSIBLE_CONFIG_PATHS_Reordered ==
    <<Str_parts_toml, Str_Cargo_candidate, Str_dot_parts_toml,
      Str_pyproject_candidate>>

POSSIBLE_CONFIG_PATHS ==
    <<Str_parts_toml, Str_dot_parts_toml, Str_Cargo_candidate,
      Str_pyproject_candidate>>

\* Result<T>
Ok(x) == [ok |-> TRUE, val |-> x]
Err(e) == [ok |-> FALSE, err |-> e]

\* The variants of Error that config resolution produces.
ErrIO == [kind |-> "IO"]
ErrTomlDecode == [kind |-> "TomlDecode"]
ErrKeysNotFound(keys, path) == [kind |-> "KeysNotFound", keys |-> keys, path |-> path]
ErrValueIsNotTable(path) == [kind |-> "ValueIsNotTable", path |-> path]
ErrNoConfigFileFound == [kind |-> "NoConfigFileFound"]
ErrConfigFileDoesNotExist(value) == [kind |-> "ConfigFileDoesNotExist", value |-> value]

\* toml::Value
TStr(s) == [t |-> "string", v |-> s]
TInt(n) == [t |-> "integer", v |-> n]
TBool(b) == [t |-> "boolean", v |-> b]
TArr(a) == [t |-> "array", v |-> a]
TTable(kv) == [t |-> "table", v |-> kv]
EmptyTable == TTable(<<>>)

\* A file of the working directory: absent, not valid TOML, or a TOML
\* document (a table).
FileMissing == [t |-> "missing"]
FileMalformed == [t |-> "malformed"]
FileToml(doc) == [t |-> "toml", v |-> doc]

ReadFile(path) == IF path \in DOMAIN fs THEN fs[path] ELSE FileMissing

(***************************************************************************)
(* Deserialization (serde) of a TOML value into Config and ConfigFile.     *)
(***************************************************************************)
default_directory == Str_dotslash
default_true == TRUE

IsStrArray(v) ==
    v.t = "array" /\ \A i \in DOMAIN v.v : v.v[i].t = "string"

\* The fields of Config and the TOML type each one accepts.
ConfigFields ==
    {Str_directory, Str_ignore_hidden, Str_use_gitignore, Str_regexes,
     Str_globs, Str_exclude_regexes, Str_exclude_globs}

FieldTypeOk(k, v) ==
    IF k = Str_directory THEN v.t = "string"
    ELSE IF k \in {Str_ignore_hidden, Str_use_gitignore} THEN v.t = "boolean"
    ELSE IsStrArray(v)

Field(tbl, k, dflt) == IF k \in DOMAIN tbl THEN tbl[k].v ELSE dflt

\* Config::deserialize: #[serde(deny_unknown_fields)], every field optional
\* with its default.
DeserializeConfigValue(v) ==
    IF v.t # "table" THEN Err(ErrTomlDecode)
    ELSE IF \E k \in DOMAIN v.v : k \notin ConfigFields THEN Err(ErrTomlDecode)
    ELSE IF \E k \in DOMAIN v.v : ~FieldTypeOk(k, v.v[k]) THEN Err(ErrTomlDecode)
    ELSE LET strs(k) == Field(v.v, k, <<>>)
         IN  Ok([directory |-> Field(v.v, Str_directory, default_directory),
                 ignore_hidden |-> Field(v.v, Str_ignore_hidden, default_true),
                 use_gitignore |-> Field(v.v, Str_use_gitignore, default_true),
                 regexes |-> [i \in DOMAIN strs(Str_regexes) |->
                                 Regex(strs(Str_regexes)[i].v)],
                 globs |-> [i \in DOMAIN strs(Str_globs) |->
                                 Glob(strs(Str_globs)[i].v)],
                 exclude_regexes |-> [i \in DOMAIN strs(Str_exclude_regexes) |->
                                 Regex(strs(Str_exclude_regexes)[i].v)],
                 exclude_globs |-> [i \in DOMAIN strs(Str_exclude_globs) |->
                                 Glob(strs(Str_exclude_globs)[i].v)]])

\* ConfigFile::deserialize: config_file is skipped (left at String::default),
\* default is an optional string, every other key is a part.
DeserializeConfigFile(v) ==
    IF v.t # "table" THEN Err(ErrTomlDecode)
    ELSE LET names == DOMAIN v.v \ {Str_default}
         IN  IF Str_default \in DOMAIN v.v /\ v.v[Str_default].t # "string"
             THEN Err(ErrTomlDecode)
             ELSE IF \E n \in names : ~DeserializeConfigValue(v.v[n]).ok
             THEN Err(ErrTomlDecode)
             ELSE Ok([config_file |-> <<>>,
                      default |-> IF Str_default \in DOMAIN v.v
                                  THEN [some |-> v.v[Str_default].v]
                                  ELSE None,
                      configs |-> [n \in names |-> DeserializeConfigValue(v.v[n]).val]])

\* The loop of try_parse_config_file over the keys: each key indexes the
\* current value, which must be a table holding it.
RECURSIVE Descend(_, _, _)
Descend(doc, keys, path) ==
    IF keys = <<>> THEN Ok(doc)
    ELSE IF doc.t = "table"
         THEN IF Head(keys) \in DOMAIN doc.v
              THEN Descend(doc.v[Head(keys)], Tail(keys), path)
              ELSE Err(ErrKeysNotFound(Head(keys), path))
         ELSE Err(ErrValueIsNotTable(path))

try_parse_config_file(path, keys) ==
    LET content == ReadFile(path)
    IN  IF content.t = "missing" THEN Err(ErrIO)
        ELSE IF content.t = "malformed" THEN Err(ErrTomlDecode)
        ELSE IF keys = <<>> THEN DeserializeConfigFile(content.v)
        ELSE LET d == Descend(content.v, keys, path)
             IN  IF d.ok THEN DeserializeConfigFile(d.val) ELSE d

validate_config_file_value(value) ==
    IF ReadFile(split_path_and_keys(value).path).t # "missing"
    THEN Ok(value)
    ELSE Err(ErrConfigFileDoesNotExist(value))

\* try_find_config_file treating no error as fatal.
IsFatal_Never(e) == FALSE

\* The match on the error in try_find_config_file: a TomlDecode error is
\* returned, any other error is logged.
IsFatal(e) == e.kind = "TomlDecode"

(***************************************************************************)
(* ConfigFile.                                                             *)
(***************************************************************************)
Lookup(configs, name) ==
    IF name \in DOMAIN configs THEN [some |-> configs[name]] ELSE None

\* get_default_config falling back to any part when there is no default.
get_default_config_Fallback(cf) ==
    IF cf.default = None
    THEN IF DOMAIN cf.configs = {} THEN None
         ELSE [some |-> cf.configs[CHOOSE n \in DOMAIN cf.configs : TRUE]]
    ELSE Lookup(cf.configs, cf.default.some)

get_default_config(cf) ==
    IF cf.default = None THEN None ELSE Lookup(cf.configs, cf.default.some)

get(cf, key) ==
    IF key # None THEN Lookup(cf.configs, key.some) ELSE get_default_config(cf)

matches_default(cf, key) ==
    IF cf.default # None THEN cf.default.some = key ELSE FALSE

(***************************************************************************)
(* The files a run of try_main may find.                                   *)
(***************************************************************************)
PartGlobs == TTable(Str_globs :> TArr(<<TStr(Name(2))>>))
PartDirectory ==
    TTable((Str_directory :> TStr(Str_d)) @@ (Str_ignore_hidden :> TBool(FALSE)))
PartUnknownField == TTable(Str_bogus :> TInt(1))
PartWrongType == TTable(Str_directory :> TInt(1))

DocAB == TTable((Str_default :> TStr(Str_a)) @@ (Str_a :> PartGlobs)
                    @@ (Str_b :> PartDirectory))
DocNoDefault == TTable((Str_a :> PartGlobs) @@ (Str_b :> EmptyTable))
DocDanglingDefault == TTable((Str_default :> TStr(Str_missing)) @@ (Str_a :> PartGlobs))
DocUnknownField == TTable(Str_a :> PartUnknownField)
DocWrongType == TTable((Str_a :> PartGlobs) @@ (Str_b :> PartWrongType))

\* What a bare config file (parts.toml, .parts.toml) may be.
BareFiles ==
    {FileMissing, FileMalformed, FileToml(EmptyTable), FileToml(DocAB),
     FileToml(DocNoDefault), FileToml(DocDanglingDefault),
     FileToml(DocUnknownField), FileToml(DocWrongType)}

\* What a host file (Cargo.toml, pyproject.toml) may be, the config being
\* looked for under the keys k1.k2.
HostFiles(k1, k2) ==
    {FileMissing, FileMalformed,
     FileToml(EmptyTable),
     FileToml(TTable(k1 :> TInt(1))),
     FileToml(TTable(k1 :> EmptyTable)),
     FileToml(TTable(k1 :> TTable(k2 :> TInt(1)))),
     FileToml(TTable(k1 :> TTable(k2 :> DocAB))),
     FileToml(TTable(k1 :> TTable(k2 :> DocUnknownField)))}

\* The values of --config given on the command line.
CliSources ==
    {Str_parts_toml, Str_Cargo_candidate, Str_pyproject_toml,
     Str_Cargo_toml \o <<":">> \o Str_metadata}

\* The names asked of ConfigFile::get.
GetKeys == {None, [some |-> Str_a], [some |-> Str_missing]}

InitConfig ==
    /\ \E f1 \in BareFiles, f2 \in BareFiles,
          f3 \in HostFiles(Str_metadata, Str_parts),
          f4 \in HostFiles(Str_tool, Str_parts) :
            fs = (Str_parts_toml :> f1) @@ (Str_dot_parts_toml :> f2)
                    @@ (Str_Cargo_toml :> f3) @@ (Str_pyproject_toml :> f4)
    /\ cliConfig \in {None} \cup {[some |-> s] : s \in CliSources}
    /\ cpc = "cli"
    /\ cand = 1
    /\ warned = <<>>
    /\ resolved = None
    /\ got = {}
    /\ listed = None
    /\ WalkIdle /\ SplitIdle

\* Cli::parse: the value of --config is validated; clap reports an invalid
\* value and the process exits.
ParseCli ==
    /\ cpc = "cli"
    /\ IF cliConfig # None /\ ~validate_config_file_value(cliConfig.some).ok
       THEN /\ cpc' = "failed"
            /\ resolved' = validate_config_file_value(cliConfig.some)
       ELSE /\ cpc' = "resolve"
            /\ UNCHANGED resolved
    /\ UNCHANGED <<fs, cliConfig, cand, warned, got, listed, walkVars, splitVars>>

\* try_main with --config: the source is split and parsed; an error is
\* returned by the `?`.
ResolveExplicit ==
    /\ cpc = "resolve"
    /\ cliConfig # None
    /\ LET s == split_path_and_keys(cliConfig.some)
           r == try_parse_config_file(s.path, s.keys)
       IN  /\ resolved' = r
           /\ cpc' = IF r.ok THEN "resolved" ELSE "failed"
    /\ UNCHANGED <<fs, cliConfig, cand, warned, got, listed, walkVars, splitVars>>

\* One turn of the loop of try_find_config_file.
TryCandidate ==
    /\ cpc = "resolve"
    /\ cliConfig = None
    /\ cand <= Len(POSSIBLE_CONFIG_PATHS)
    /\ LET s == POSSIBLE_CONFIG_PATHS[cand]
           pk == split_path_and_keys(s)
           r == try_parse_config_file(pk.path, pk.keys)
       IN  IF r.ok
           THEN /\ resolved' = Ok([r.val EXCEPT !.config_file = s])
                /\ cpc' = "resolved"
                /\ UNCHANGED <<cand, warned>>
           ELSE IF IsFatal(r.err)
           THEN /\ resolved' = r
                /\ cpc' = "failed"
                /\ UNCHANGED <<cand, warned>>
           ELSE /\ warned' = Append(warned, s)
                /\ cand' = cand + 1
                /\ UNCHANGED <<resolved, cpc>>
    /\ UNCHANGED <<fs, cliConfig, got, listed, walkVars, splitVars>>

\* The end of the loop of try_find_config_file.
NoCandidateLeft ==
    /\ cpc = "resolve"
    /\ cliConfig = None
    /\ cand > Len(POSSIBLE_CONFIG_PATHS)
    /\ resolved' = Err(ErrNoConfigFileFound)
    /\ cpc' = "failed"
    /\ UNCHANGED <<fs, cliConfig, cand, warned, got, listed, walkVars, splitVars>>

\* A call of ConfigFile::get on the resolved document.
Get(key) ==
    /\ cpc = "resolved"
    /\ got' = got \cup {[key |-> key, part |-> get(resolved.val, key)]}
    /\ got' # got
    /\ UNCHANGED <<fs, cliConfig, cpc, cand, warned, resolved, listed, walkVars,
                   splitVars>>

\* Action::List: write_list prints the number of parts, the path and the
\* keys of config_file, then one line per part, the default one marked.
List ==
    /\ cpc = "resolved"
    /\ LET cf == resolved.val
           pk == split_path_and_keys(cf.config_file)
       IN  listed' = [count |-> Cardinality(DOMAIN cf.configs),
                      path |-> pk.path,
                      keys |-> pk.keys,
                      parts |-> {[name |-> n, is_default |-> matches_default(cf, n)] :
                                    n \in DOMAIN cf.configs}]
    /\ cpc' = "done"
    /\ UNCHANGED <<fs, cliConfig, cand, warned, resolved, got, walkVars, splitVars>>

\* Action::Walk: config_file.get(Some(&walk.part)).unwrap()
WalkPart(part) ==
    /\ cpc = "resolved"
    /\ LET r == get(resolved.val, [some |-> part])
       IN  /\ got' = got \cup {[key |-> [some |-> part], part |-> r]}
           /\ cpc' = IF r = None THEN "panicked" ELSE "done"
    /\ UNCHANGED <<fs, cliConfig, cand, warned, resolved, listed, walkVars, splitVars>>

NextConfig ==
    \/ ParseCli
    \/ ResolveExplicit
    \/ TryCandidate
    \/ NoCandidateLeft
    \/ \E key \in GetKeys : Get(key)
    \/ List
    \/ \E part \in {Str_a, Str_missing} : WalkPart(part)

SpecConfig == InitConfig /\ [][NextConfig]_vars

(***************************************************************************)
(* Properties of config resolution.                                        *)
(***************************************************************************)
Min(S) == CHOOSE m \in S : \A x \in S : m <= x

\* The order of discovery the specification states.
DiscoveryOrder ==
    <<Str_parts_toml, Str_dot_parts_toml, Str_Cargo_candidate,
      Str_pyproject_candidate>>

CandIdx == 1..Len(DiscoveryOrder)
CandPath(i) == split_path_and_keys(DiscoveryOrder[i]).path
CandKeys(i) == split_path_and_keys(DiscoveryOrder[i]).keys

\* What parsing candidate i gives on the files at hand.
Outcome(i) == try_parse_config_file(CandPath(i), CandKeys(i))

Discovering == cliConfig = None
Resolving == cpc \in {"cli", "resolve"}

\* Candidate i has been tried / has been skipped with a warning.
Tried(i) == i < cand \/ (i = cand /\ ~Resolving)
Skipped(i) == i < cand /\ i <= Len(warned) /\ warned[i] = DiscoveryOrder[i]

\* The keys lead through nested tables of doc to some value.
RECURSIVE HasKeyPath(_, _)
HasKeyPath(doc, keys) ==
    \/ keys = <<>>
    \/ /\ doc.t = "table"
       /\ Head(keys) \in DOMAIN doc.v
       /\ HasKeyPath(doc.v[Head(keys)], Tail(keys))

RECURSIVE ValueAt(_, _)
ValueAt(doc, keys) ==
    IF keys = <<>> THEN doc ELSE ValueAt(doc.v[Head(keys)], Tail(keys))

CandFile(i) == fs[CandPath(i)]
FileIsMissing(i) == CandFile(i).t = "missing"
FileIsMalformed(i) == CandFile(i).t = "malformed"
KeyPathBroken(i) ==
    CandFile(i).t = "toml" /\ ~HasKeyPath(CandFile(i).v, CandKeys(i))

\* The table candidate i names exists but is no valid set of parts: a part
\* with an unknown field or with a value of the wrong type.
SchemaViolation(i) ==
    /\ CandFile(i).t = "toml"
    /\ HasKeyPath(CandFile(i).v, CandKeys(i))
    /\ LET v == ValueAt(CandFile(i).v, CandKeys(i))
       IN  /\ v.t = "table"
           /\ \E n \in DOMAIN v.v \ {Str_default} :
                 /\ v.v[n].t = "table"
                 /\ \/ \E k \in DOMAIN v.v[n].v : k \notin ConfigFields
                    \/ \E k \in DOMAIN v.v[n].v :
                          k = Str_directory /\ v.v[n].v[k].t # "string"

\* C4 as stated: discovery returns the document of the first candidate, in
\* the order parts.toml, .parts.toml, Cargo.toml:metadata.parts,
\* pyproject.toml:tool.parts, that resolves successfully, with config_file
\* that candidate, and NoConfigFileFound when no candidate resolves.
C4_FirstSuccessfulCandidateWins ==
    (Discovering /\ ~Resolving) =>
        LET S == {i \in CandIdx : Outcome(i).ok}
        IN  IF S = {}
            THEN resolved = Err(ErrNoConfigFileFound)
            ELSE /\ resolved.ok
                 /\ resolved.val =
                        [Outcome(Min(S)).val EXCEPT !.config_file = DiscoveryOrder[Min(S)]]

\* C4, amended: the candidates are tried in that order up to the first one
\* that either resolves successfully or fails with a TomlDecode error; the
\* former gives its document with config_file that candidate, the latter
\* gives that error; the candidates before it are skipped, those after it
\* are not used; NoConfigFileFound is the result when every candidate fails
\* with another error.
C4_FirstDecisiveCandidateWins ==
    (Discovering /\ ~Resolving) =>
        LET D == {i \in CandIdx :
                    Outcome(i).ok \/ Outcome(i).err.kind = "TomlDecode"}
        IN  IF D = {}
            THEN resolved = Err(ErrNoConfigFileFound) /\ warned = DiscoveryOrder
            ELSE /\ cand = Min(D)
                 /\ warned = SubSeq(DiscoveryOrder, 1, Min(D) - 1)
                 /\ IF Outcome(Min(D)).ok
                    THEN resolved =
                            Ok([Outcome(Min(D)).val EXCEPT
                                    !.config_file = DiscoveryOrder[Min(D)]])
                    ELSE resolved = Err(ErrTomlDecode)

\* Discovery has returned the document of Cargo.toml:metadata.parts, the
\* two bare files being absent and pyproject.toml holding a valid config too.
C4_Witness ==
    /\ Discovering /\ cpc = "resolved"
    /\ resolved.val.config_file = Str_Cargo_candidate
    /\ FileIsMissing(1) /\ FileIsMissing(2)
    /\ Outcome(4).ok

C6_SchemaViolationIsSkipped ==
    Discovering =>
        \A i \in CandIdx : (Tried(i) /\ SchemaViolation(i)) => Skipped(i)

\* C7: get(Some(name)) is the part stored under name, or none; get(None) is
\* the part the default names, none without a default or when the default
\* names no part; with a default naming a part, get(None) and get(Some) of
\* that name are the same part.
C7_GetReturnsNamedOrDefaultPart ==
    cpc = "resolved" =>
        LET cf == resolved.val
        IN  /\ \A g \in got :
                  IF g.key # None
                  THEN IF g.key.some \in DOMAIN cf.configs
                       THEN g.part = [some |-> cf.configs[g.key.some]]
                       ELSE g.part = None
                  ELSE IF cf.default = None THEN g.part = None
                       ELSE IF cf.default.some \notin DOMAIN cf.configs
                            THEN g.part = None
                            ELSE g.part = [some |-> cf.configs[cf.default.some]]
            /\ \A g1, g2 \in got :
                  (/\ g1.key = None
                   /\ cf.default # None
                   /\ g2.key = cf.default
                   /\ cf.default.some \in DOMAIN cf.configs)
                  => (g1.part = g2.part /\ g1.part # None)

\* On the document {default = "a", a, b}, get was called with None, with "a"
\* and with "missing".
C7_Witness ==
    /\ cpc = "resolved"
    /\ resolved.val.default = [some |-> Str_a]
    /\ {Str_a, Str_b} \subseteq DOMAIN resolved.val.configs
    /\ {g.key : g \in got} = GetKeys
    /\ \E g \in got : g.key = [some |-> Str_missing] /\ g.part = None

\* C10: the document of a successful resolution has config_file equal to
\* the source it was found with, the --config value or the discovery
\* candidate.
C10_OriginIsTheSourceUsed ==
    (~Resolving /\ resolved.ok) =>
        resolved.val.config_file =
            IF cliConfig = None THEN POSSIBLE_CONFIG_PATHS[cand] ELSE cliConfig.some

(***************************************************************************)
(* split_path_and_keys on the strings of a small alphabet.                 *)
(***************************************************************************)
Alphabet == {"a", ":", "."}

RECURSIVE StringsOfLen(_)
StringsOfLen(n) ==
    IF n = 0 THEN {<<>>}
    ELSE {<<c>> \o s : c \in Alphabet, s \in StringsOfLen(n - 1)}

Str_a_toml_x_y == <<"a", ".", "t", "o", "m", "l", ":", "x", ".", "y">>

SplitInputs ==
    UNION {StringsOfLen(n) : n \in 0..MaxLen}
        \cup {Str_a_toml_x_y, Str_dot_parts_toml, Str_Cargo_candidate}

InitSplit ==
    /\ input \in SplitInputs
    /\ output = None
    /\ WalkIdle /\ ConfIdle

Split ==
    /\ output = None
    /\ output' = split_path_and_keys(input)
    /\ UNCHANGED <<input, walkVars, confVars>>

NextSplit == Split

SpecSplit == InitSplit /\ [][NextSplit]_vars

\* The keys joined with dots.
RECURSIVE JoinKeys(_)
JoinKeys(keys) ==
    IF Len(keys) = 0 THEN <<>>
    ELSE IF Len(keys) = 1 THEN keys[1]
    ELSE keys[1] \o <<".">> \o JoinKeys(Tail(keys))

HasChar(s, c) == \E i \in DOMAIN s : s[i] = c

\* C8: without a colon the path is the whole string and there is no key;
\* otherwise the path is the text before the first colon (it holds no
\* colon), and the keys are the text after that colon cut at every dot, in
\* order: no key holds a dot and path, colon and the keys joined with dots
\* give the string back.
C8_SplitOnFirstColonThenDots ==
    output # None =>
        /\ IF ~HasChar(input, ":")
           THEN output.path = input /\ output.keys = <<>>
           ELSE /\ ~HasChar(output.path, ":")
                /\ Len(output.keys) >= 1
                /\ \A k \in DOMAIN output.keys : ~HasChar(output.keys[k], ".")
                /\ input = output.path \o <<":">> \o JoinKeys(output.keys)
        /\ input = Str_a_toml_x_y =>
                output = [path |-> <<"a", ".", "t", "o", "m", "l">>, keys |-> << <<"x">>, <<"y">> >>]
        /\ input = Str_dot_parts_toml =>
                output = [path |-> Str_dot_parts_toml, keys |-> <<>>]

\* A string with two colons and a dot after the first one has been split.
C8_Witness ==
    /\ output # None
    /\ input = <<"a", ":", ".", ":">>
    /\ output.path = <<"a">>
    /\ output.keys = << <<>>, <<":">> >>

(***************************************************************************)
(* The descent of try_parse_config_file through the keys, and the keys     *)
(* split_path_and_keys returns.                                            *)
(***************************************************************************)
\* The result the descent is to give: at every level, the value reached
\* after the last key included, a value that is no table is
\* ValueIsNotTable; a table lacking the next key is KeysNotFound with that
\* key; the table reached after the last key is deserialized.
RECURSIVE DescentResult(_, _, _)
DescentResult(doc, keys, path) ==
    IF doc.t # "table" THEN Err(ErrValueIsNotTable(path))
    ELSE IF keys = <<>> THEN DeserializeConfigFile(doc)
    ELSE IF Head(keys) \notin DOMAIN doc.v
         THEN Err(ErrKeysNotFound(Head(keys), path))
         ELSE DescentResult(doc.v[Head(keys)], Tail(keys), path)

\* C11: with a --config source that has keys and names a TOML file, the
\* result of try_parse_config_file is KeysNotFound with the key and the path
\* when a table on the way lacks the key, ValueIsNotTable with the path when
\* a value on the way or the value reached after the last key is no table,
\* and otherwise the deserialization of the table reached.
C11_DescentChecksEveryLevel ==
    (cliConfig # None /\ cpc \in {"resolved", "failed"}) =>
        LET pk == split_path_and_keys(cliConfig.some)
        IN  (pk.keys # <<>> /\ ReadFile(pk.path).t = "toml") =>
                resolved = DescentResult(ReadFile(pk.path).v, pk.keys, pk.path)

\* C12: every key split_path_and_keys returns is a non-empty string.
C12_KeysAreNonEmpty ==
    output # None => \A k \in DOMAIN output.keys : Len(output.keys[k]) > 0

====
